---- MODULE Spec2Model ----
(***************************************************************************)
(* Deputy timesheet sync (src/Code.js): one run of mainDataFetchAndProcess *)
(* as a sequence of steps, one per call to an external service (script     *)
(* properties, Deputy API, spreadsheet, mail), over an explicit model of   *)
(* the remote Timesheet table and of the sheet.                            *)
(*                                                                         *)
(* Conventions.  A JS string is a TLA+ string; "" stands for every falsy   *)
(* string value (null, undefined, '').  A number that may be absent is 0   *)
(* when absent (0 is falsy in JS as well).  API timestamps, which the code *)
(* splits and cuts, are sequences of one-character strings.  A sheet cell  *)
(* holds the string the value prints as.  Where src/Code.js declares a     *)
(* function twice (the helper file is present in two versions), the later  *)
(* declaration is the one in effect, as in a JS script.                    *)
(***************************************************************************)
EXTENDS Integers, Sequences, FiniteSets, TLC

\* ------------------------------------------------------------------ bounds
\* Small record ids are FirstId .. FirstId + MaxIds - 1.
FirstId == 10
MaxIds == 4
\* Rows already in the sheet come from the first MaxInitRows small ids.
MaxInitRows == 2
\* Runs of mainDataFetchAndProcess one process starts.
MaxRuns == 2
\* Rule ids 1 .. MaxRuleId of the lookup calls carry a name.
MaxRuleId == 4
\* Triggers in the project before setupTrigger is first called, firings of
\* the weekly trigger, weeks between the first firing and 2025-06-04 either
\* way, and calls of setupTrigger.
MaxTriggers == 2
MaxFirings == 4
MaxWeeksOff == 3
MaxSetups == 2
\* Slots of a record in the calls of the mealbreak helpers.
MaxSlots == 2
\* Run dates are the days 2024-01-01 + FirstRunDay .. 2024-01-01 + MaxRunDay.
FirstRunDay == 20
MaxRunDay == 400

\* ------------------------------------------------------- program constants
MAX_RECORDS_PER_CALL == 500

Procs == {1, 2}

RequiredProps ==
  {"DEPUTY_INSTALL", "DEPUTY_GEO", "DEPUTY_ACCESS_TOKEN", "SPREADSHEET_ID",
   "SHEET_NAME", "ADMIN_EMAIL_FOR_NOTIFICATIONS"}

PropNames == RequiredProps \cup {"DEPUTY_AUTH_TYPE", "TIMESHEET_ID_COLUMN_INDEX"}

sheetHeaders ==
  <<"TimeSheet ID", "Employee Export Code", "Employee Name", "Date", "Start",
    "End", "Mealbreak", "Total Hours", "Total Cost", "Employee Comment",
    "Area Name", "Location Name", "Leave", "Manager's Comment">>

\* ------------------------------------------------------------ conversions
Digits == <<"0", "1", "2", "3", "4", "5", "6", "7", "8", "9">>

\* Number.prototype.toString for a non-negative integer.
RECURSIVE ToStr(_)
ToStr(n) ==
  IF n < 10 THEN Digits[n + 1] ELSE ToStr(n \div 10) \o Digits[(n % 10) + 1]

\* The string made of a sequence of one-character strings.
RECURSIVE Join(_)
Join(cs) == IF cs = <<>> THEN "" ELSE Head(cs) \o Join(Tail(cs))

\* String.prototype.padStart(2, '0') of a number below 100.
Pad2(n) == IF n < 10 THEN "0" \o ToStr(n) ELSE ToStr(n)

Min(a, b) == IF a < b THEN a ELSE b
Max(a, b) == IF a > b THEN a ELSE b

\* parseInt(property, 10); -1 stands for NaN.
ParseInt(s) == CASE s = "0" -> 0 [] s = "1" -> 1 [] OTHER -> -1

\* TIMESHEET_ID_COLUMN_INDEX as the run uses it (NaN defaults to 0).
IdColumnIndex(props) ==
  LET parsed == ParseInt(props["TIMESHEET_ID_COLUMN_INDEX"])
  IN  IF parsed = -1 THEN 0 ELSE parsed

\* ------------------------------------------------------ helper functions
\* Index of the first 'T' of a character sequence, 0 when there is none.
IndexOfT(cs) ==
  IF \E i \in 1..Len(cs) : cs[i] = "T"
    THEN CHOOSE i \in 1..Len(cs) : cs[i] = "T" /\ \A j \in 1..(i - 1) : cs[j] # "T"
    ELSE 0

\* The part between the first and the second 'T' (split('T')[1]).
SecondPart(cs) ==
  LET i == IndexOfT(cs)
      rest == SubSeq(cs, i + 1, Len(cs))
      j == IndexOfT(rest)
  IN  IF j = 0 THEN rest ELSE SubSeq(rest, 1, j - 1)

formatApiTimeToSheetTime(apiLocalizedTimeStr) ==
  IF apiLocalizedTimeStr = <<>> THEN ""
  ELSE IF IndexOfT(apiLocalizedTimeStr) = 0
    THEN Join(apiLocalizedTimeStr)   \* split('T')[1] is undefined: caught
    ELSE LET timePart == SecondPart(apiLocalizedTimeStr)
         IN  Join(SubSeq(timePart, 1, Min(8, Len(timePart))))

\* new Date(str) formatted "MM/dd/yyyy" in the script's time zone, for a
\* timestamp whose offset is that of the script's time zone.
formatApiDateToSheetDate(apiDateStr) ==
  IF apiDateStr = <<>> THEN ""
  ELSE Join(SubSeq(apiDateStr, 6, 7)) \o "/" \o Join(SubSeq(apiDateStr, 9, 10))
         \o "/" \o Join(SubSeq(apiDateStr, 1, 4))

\* calculateMealbreakDurationInSeconds with every slot ignored.
calculateMealbreakDurationInSeconds_Zero(slotsArray) == 0

RECURSIVE calculateMealbreakDurationInSeconds(_)
calculateMealbreakDurationInSeconds(slotsArray) ==
  IF slotsArray = <<>> THEN 0
  ELSE LET slot == Head(slotsArray)
           rest == calculateMealbreakDurationInSeconds(Tail(slotsArray))
       IN  IF slot.strType = "B" /\ slot.strTypeName = "Meal Break"
             THEN (slot.intUnixEnd - slot.intUnixStart) + rest
             ELSE rest

\* formatDurationFromSeconds with nothing padded.
formatDurationFromSeconds_NoPad(totalSeconds) ==
  ToStr(totalSeconds \div 3600) \o ":" \o ToStr((totalSeconds % 3600) \div 60)
    \o ":" \o ToStr(totalSeconds % 60)

formatDurationFromSeconds(totalSeconds) ==
  LET hours == totalSeconds \div 3600
      minutes == (totalSeconds % 3600) \div 60
      seconds == totalSeconds % 60
  IN  ToStr(hours) \o ":" \o Pad2(minutes) \o ":" \o Pad2(seconds)

\* lookupLeaveRuleName without the fallback of line 557.
lookupLeaveRuleName_NoFallback(leaveRuleId, leaveRuleMap) ==
  IF leaveRuleId \in DOMAIN leaveRuleMap THEN leaveRuleMap[leaveRuleId] ELSE ""

\* leaveRuleMap is a function from rule ids to names.
lookupLeaveRuleName(leaveRuleId, leaveRuleMap) ==
  IF leaveRuleId = 0 THEN ""
  ELSE IF leaveRuleId \in DOMAIN leaveRuleMap /\ leaveRuleMap[leaveRuleId] # ""
    THEN leaveRuleMap[leaveRuleId]
    ELSE "Unknown Rule ID (" \o ToStr(leaveRuleId) \o ")"

\* ts.Id.toString()
deputyTimesheetIdString(ts) == ToStr(ts.Id)

\* leaveTypeName by the lookup alone, IsLeave not consulted.
leaveTypeName_Lookup(ts, leaveRuleMap) ==
  lookupLeaveRuleName(ts.LeaveRule, leaveRuleMap)

\* Lines 150-155.
leaveTypeName(ts, leaveRuleMap) ==
  IF ts.IsLeave /\ ts.LeaveRule # 0
    THEN lookupLeaveRuleName(ts.LeaveRule, leaveRuleMap)
    ELSE IF ts.IsLeave THEN "Leave (Rule ID Missing)" ELSE ""

\* rowData without its last cell, the manager's comment.
rowData_Short(ts, leaveRuleMap) ==
  <<deputyTimesheetIdString(ts),
    IF ts.EmployeeObject.Id # 0 THEN ToStr(ts.EmployeeObject.Id) ELSE "",
    ts.EmployeeObject.DisplayName,
    formatApiDateToSheetDate(ts.Date),
    formatApiTimeToSheetTime(ts.StartTimeLocalized),
    formatApiTimeToSheetTime(ts.EndTimeLocalized),
    formatDurationFromSeconds(calculateMealbreakDurationInSeconds(ts.Slots)),
    ToStr(ts.TotalTime),
    ToStr(ts.Cost),
    ts.EmployeeComment,
    ts.OperationalUnitInfo.OperationalUnitName,
    ts.OperationalUnitInfo.CompanyName,
    leaveTypeName(ts, leaveRuleMap)>>

\* The row built for one timesheet (the array literal of the for loop).
rowData(ts, leaveRuleMap) ==
  <<deputyTimesheetIdString(ts),
    IF ts.EmployeeObject.Id # 0 THEN ToStr(ts.EmployeeObject.Id) ELSE "",
    ts.EmployeeObject.DisplayName,
    formatApiDateToSheetDate(ts.Date),
    formatApiTimeToSheetTime(ts.StartTimeLocalized),
    formatApiTimeToSheetTime(ts.EndTimeLocalized),
    formatDurationFromSeconds(calculateMealbreakDurationInSeconds(ts.Slots)),
    ToStr(ts.TotalTime),
    ToStr(ts.Cost),
    ts.EmployeeComment,
    ts.OperationalUnitInfo.OperationalUnitName,
    ts.OperationalUnitInfo.CompanyName,
    leaveTypeName(ts, leaveRuleMap),
    ts.SupervisorComment>>

\* ------------------------------------------------------------ remote data
SmallIds == FirstId .. (FirstId + MaxIds - 1)

\* "2025-06-02T00:00:00-04:00", "2025-06-02T09:00:00-04:00" and
\* "2025-06-02T17:30:00-04:00" as character sequences.
DateChars ==
  <<"2", "0", "2", "5", "-", "0", "6", "-", "0", "2", "T", "0", "0", ":", "0",
    "0", ":", "0", "0", "-", "0", "4", ":", "0", "0">>
StartChars ==
  <<"2", "0", "2", "5", "-", "0", "6", "-", "0", "2", "T", "0", "9", ":", "0",
    "0", ":", "0", "0", "-", "0", "4", ":", "0", "0">>
EndChars ==
  <<"2", "0", "2", "5", "-", "0", "6", "-", "0", "2", "T", "1", "7", ":", "3",
    "0", ":", "0", "0", "-", "0", "4", ":", "0", "0">>

NoEmployee == [Id |-> 0, DisplayName |-> ""]
NoUnit == [OperationalUnitName |-> "", CompanyName |-> ""]

\* The Timesheet record of the remote table with the given id.  Ids cycle
\* through four shapes: a regular shift with every field (id % 4 = 2), a
\* manually approved leave (3), a shift with no optional field (0) and a
\* leave approved by the system, TimeApprover = -1 (1).
Timesheet(id) ==
  CASE id % 4 = 2 ->
         [Id |-> id, TimeApprover |-> 5, IsLeave |-> FALSE, LeaveRule |-> 0,
          EmployeeObject |-> [Id |-> 7, DisplayName |-> "Ann"],
          Date |-> DateChars, StartTimeLocalized |-> StartChars,
          EndTimeLocalized |-> EndChars,
          Slots |-> <<[strType |-> "B", strTypeName |-> "Meal Break",
                       intUnixStart |-> 1000, intUnixEnd |-> 1900],
                      [strType |-> "W", strTypeName |-> "Work",
                       intUnixStart |-> 0, intUnixEnd |-> 1000]>>,
          TotalTime |-> 8, Cost |-> 120, EmployeeComment |-> "late",
          SupervisorComment |-> "ok",
          OperationalUnitInfo |->
            [OperationalUnitName |-> "Bar", CompanyName |-> "Main"]]
    [] id % 4 = 3 ->
         [Id |-> id, TimeApprover |-> 5, IsLeave |-> TRUE, LeaveRule |-> 1,
          EmployeeObject |-> [Id |-> 8, DisplayName |-> "Bob"],
          Date |-> DateChars, StartTimeLocalized |-> StartChars,
          EndTimeLocalized |-> EndChars, Slots |-> <<>>,
          TotalTime |-> 8, Cost |-> 0, EmployeeComment |-> "",
          SupervisorComment |-> "",
          OperationalUnitInfo |-> NoUnit]
    [] id % 4 = 0 ->
         [Id |-> id, TimeApprover |-> 5, IsLeave |-> FALSE, LeaveRule |-> 0,
          EmployeeObject |-> NoEmployee,
          Date |-> <<>>, StartTimeLocalized |-> <<>>,
          EndTimeLocalized |-> <<>>, Slots |-> <<>>,
          TotalTime |-> 0, Cost |-> 0, EmployeeComment |-> "",
          SupervisorComment |-> "",
          OperationalUnitInfo |-> NoUnit]
    [] OTHER ->
         [Id |-> id, TimeApprover |-> -1, IsLeave |-> TRUE, LeaveRule |-> 3,
          EmployeeObject |-> [Id |-> 8, DisplayName |-> "Bob"],
          Date |-> DateChars, StartTimeLocalized |-> <<>>,
          EndTimeLocalized |-> <<>>, Slots |-> <<>>,
          TotalTime |-> 8, Cost |-> 0, EmployeeComment |-> "",
          SupervisorComment |-> "",
          OperationalUnitInfo |-> NoUnit]

\* The elements of a finite set of integers in ascending order.
RECURSIVE Ascending(_)
Ascending(S) ==
  IF S = {} THEN <<>>
  ELSE LET m == CHOOSE x \in S : \A y \in S : x <= y
       IN  <<m>> \o Ascending(S \ {m})

Reverse(s) == [i \in 1..Len(s) |-> s[Len(s) + 1 - i]]

\* Tables of the small ids: the server sorts by (Date, StartTimeLocalized),
\* which orders ids either way; "dup" lists the first record a second time.
TableOf(S, pattern) ==
  LET asc == Ascending(S)
      ids == CASE pattern = "asc" -> asc
               [] pattern = "desc" -> Reverse(asc)
               [] OTHER -> IF asc = <<>> THEN asc ELSE asc \o <<asc[1]>>
  IN  [i \in 1..Len(ids) |-> Timesheet(ids[i])]

SmallTables ==
  {TableOf(S, "asc") : S \in SUBSET SmallIds}
    \cup {TableOf(SmallIds, pat) : pat \in {"desc", "dup"}}

\* Tables of n records, all of them shifts with no optional field.
BigSizes == {MAX_RECORDS_PER_CALL, 2 * MAX_RECORDS_PER_CALL + 137}
BigTable(n) == [i \in 1..n |-> Timesheet(4 * i + 8)]
BigTables == {BigTable(n) : n \in BigSizes}

\* The LeaveRule table of the remote.
remoteLeaveRules ==
  <<[Id |-> 1, Name |-> "Sick"], [Id |-> 2, Name |-> "Vacation"],
    [Id |-> 4, Name |-> ""]>>

\* A LeaveRule table of more than one page: the rules above, then rules
\* named after their ids.
BigLeaveRules ==
  [i \in 1..(MAX_RECORDS_PER_CALL + 2) |->
     IF i <= Len(remoteLeaveRules) THEN remoteLeaveRules[i]
     ELSE [Id |-> i + 1, Name |-> "Rule " \o ToStr(i + 1)]]

\* ------------------------------------------------------------- remote API
\* The search of the timesheet query: s3 (TimeApprover gt 0).  The table
\* holds the records of the queried date window, s1 and s2.
MatchesSearch(ts) == ts.TimeApprover > 0

\* The page a QUERY returns for {start, max} over the matching records.
PageOf(records, start, max) ==
  SubSeq(records, start + 1, Min(start + max, Len(records)))

QueryTimesheets(table, payload) ==
  PageOf(SelectSeq(table, MatchesSearch), payload.start, payload.max)

QueryLeaveRules(table, payload) == PageOf(table, payload.start, payload.max)

ErrorCodes == {500}

\* ------------------------------------------------------------------ sheet
getLastRow(sh) == Len(sh)

Cell(row, col) == IF col <= Len(row) THEN row[col] ELSE ""

\* setValues over a range of one row.
setValues_OneRow(sh, row, values) ==
  IF values = <<>> THEN sh
  ELSE [i \in 1..Max(Len(sh), row) |->
          IF i = row THEN values[1] ELSE IF i <= Len(sh) THEN sh[i] ELSE <<>>]

\* getRange(row, 1, Len(values), 14).setValues(values)
setValues(sh, row, values) ==
  [i \in 1..Max(Len(sh), row + Len(values) - 1) |->
     IF i >= row /\ i < row + Len(values) THEN values[i - row + 1]
     ELSE IF i <= Len(sh) THEN sh[i]
     ELSE <<>>]

appendRow(sh, row) == Append(sh, row)

getExistingDeputyIDsFromSheet(sh, idColumnIndex) ==
  LET lastRow == getLastRow(sh)
  IN  IF lastRow < 2 THEN {}
      ELSE {Cell(sh[i], idColumnIndex + 1) : i \in 2..lastRow} \ {""}

\* The warnings checkAndWriteHeaderRow logs for a sheet that has rows.
HeaderWarnings(sh, expectedHeaders) ==
  LET width == Len(sh[1])
      n == Min(Len(expectedHeaders), width)
  IN  (IF width < Len(expectedHeaders) THEN {"shorter"} ELSE {})
        \cup (IF \E i \in 1..n : expectedHeaders[i] # sh[1][i]
                THEN {"mismatch"} ELSE {})

\* Sheets a run may find: an empty tab, or a header (the expected one or a
\* short foreign one) followed by rows of earlier runs and, for key 0, a
\* row with a blank key cell.
FullLeaveRuleMap == [i \in {1, 2} |-> remoteLeaveRules[i].Name]
ShortHeader == <<"ID", "Name">>
BlankKeyRow == <<"", "subtotal">>
InitIds == FirstId .. (FirstId + MaxInitRows - 1)
ExistingRows(S) ==
  LET keys == Ascending(S)
  IN  [i \in 1..Len(keys) |-> rowData(Timesheet(keys[i]), FullLeaveRuleMap)]
InitSheets ==
  {<<>>} \cup {<<sheetHeaders>> \o ExistingRows(S) : S \in SUBSET InitIds}
    \cup {<<ShortHeader>> \o ExistingRows({FirstId}),
          <<sheetHeaders>> \o ExistingRows({FirstId}) \o <<BlankKeyRow>>}

\* ------------------------------------------------------------------ state
VARIABLES
  scriptProperties,   \* PropertiesService: property name -> value, "" unset
  remoteTimesheets,   \* the remote Timesheet table, in the server's sort order
  leaveRuleTable,     \* the remote LeaveRule table
  sinkState,          \* "ok", "noTab" (tab missing), "noAccess" (openById throws)
  sheet,              \* the rows of the tab, row 1 first
  pc,                 \* per process: the step of mainDataFetchAndProcess
  runCount,           \* per process: runs started
  leaveRuleMap,       \* fetchAllLeaveRules: leaveRuleMap
  lrStartRecord,      \* fetchAllLeaveRules: currentStartRecord
  lrOutcome,          \* how the leave-rule loop ended
  allApiTimesheets,
  currentStartRecord,
  keepFetching,
  existingTimesheetIDsInSheet,
  rowsToAppend,
  lastRowRead,        \* sheet.getLastRow() as read for the bulk write
  tsOutcome,          \* how the timesheet loop ended
  tsPages,            \* the sizes of the pages the timesheet requests returned
  requests,           \* the QUERY requests issued: endpoint, start, max
  emails,             \* MailApp.sendEmail calls of the run
  warnings,           \* header warnings logged by the run
  sinkWrites,         \* the writes of the run to the sheet
  sheetAtStart,       \* the sheet when the run started
  exitAt,             \* where the run returned: which return or log line
  prevRun,            \* summary of the process's previous run
  helperCall,         \* a call of a helper function: its name and arguments
  helperResult,       \* what the call returned
  projectTriggers,    \* ScriptApp.getProjectTriggers(): the handler of each trigger
  today,              \* the UTC date of the latest trigger firing, in days
  firings,            \* the trigger firings so far: date, and whether the sync ran
  setupCalls          \* calls of setupTrigger so far

envVars == <<scriptProperties, remoteTimesheets, leaveRuleTable, sinkState>>
fetchVars ==
  <<leaveRuleMap, lrStartRecord, lrOutcome, allApiTimesheets,
    currentStartRecord, keepFetching, tsOutcome, tsPages, requests>>
sinkVars ==
  <<existingTimesheetIDsInSheet, rowsToAppend, lastRowRead, warnings,
    sinkWrites>>
runVars == <<runCount, sheetAtStart, prevRun>>
mainVars == <<envVars, sheet, pc, fetchVars, sinkVars, emails, runVars, exitAt>>
helperVars == <<helperCall, helperResult>>
scheduleVars == <<projectTriggers, today, firings, setupCalls>>
vars ==
  <<envVars, sheet, pc, fetchVars, sinkVars, emails, runVars, exitAt,
    helperVars, scheduleVars>>

\* ADMIN_EMAIL read from another property.
ADMIN_EMAIL_Geo == scriptProperties["DEPUTY_GEO"]

ADMIN_EMAIL == scriptProperties["ADMIN_EMAIL_FOR_NOTIFICATIONS"]
TIMESHEET_ID_COLUMN_INDEX == IdColumnIndex(scriptProperties)

Email(subject, detail) == [to |-> ADMIN_EMAIL, subject |-> subject, detail |-> detail]

EmptyMap == [i \in {} |-> ""]
NoRun == [valid |-> FALSE, ids |-> {}, completed |-> FALSE]

\* Script properties: all set; one required property unset; or the id
\* column configured as column B.
AllSet ==
  [n \in PropNames |->
     CASE n = "TIMESHEET_ID_COLUMN_INDEX" -> ""
       [] n = "DEPUTY_AUTH_TYPE" -> ""
       [] OTHER -> "set"]
InitProperties ==
  {AllSet} \cup {[AllSet EXCEPT ![n] = ""] : n \in RequiredProps}
    \cup {[AllSet EXCEPT !["TIMESHEET_ID_COLUMN_INDEX"] = v] : v \in {"0", "1"}}

\* No helper called on its own, no trigger installed, no firing yet.
NoCall == [fn |-> "none"]
NotReturned == [done |-> FALSE]
InitHelpers == helperCall = NoCall /\ helperResult = NotReturned
InitSchedule == projectTriggers = <<>> /\ today = 0 /\ firings = <<>> /\ setupCalls = 0

InitRun ==
  /\ pc = [p \in Procs |-> "idle"]
  /\ runCount = [p \in Procs |-> 0]
  /\ leaveRuleMap = [p \in Procs |-> EmptyMap]
  /\ lrStartRecord = [p \in Procs |-> 0]
  /\ lrOutcome = [p \in Procs |-> "none"]
  /\ allApiTimesheets = [p \in Procs |-> <<>>]
  /\ currentStartRecord = [p \in Procs |-> 0]
  /\ keepFetching = [p \in Procs |-> TRUE]
  /\ existingTimesheetIDsInSheet = [p \in Procs |-> {}]
  /\ rowsToAppend = [p \in Procs |-> <<>>]
  /\ lastRowRead = [p \in Procs |-> 0]
  /\ tsOutcome = [p \in Procs |-> "none"]
  /\ tsPages = [p \in Procs |-> <<>>]
  /\ requests = [p \in Procs |-> <<>>]
  /\ emails = [p \in Procs |-> <<>>]
  /\ warnings = [p \in Procs |-> {}]
  /\ sinkWrites = [p \in Procs |-> <<>>]
  /\ sheetAtStart = [p \in Procs |-> <<>>]
  /\ exitAt = [p \in Procs |-> "none"]
  /\ prevRun = [p \in Procs |-> NoRun]

\* The starting states: every small table with every sheet, under the
\* default id column and under column B; the large tables on an empty tab
\* and on a tab with its header; one unset property or an explicit id
\* column; a missing tab or a spreadsheet that cannot be opened; a LeaveRule
\* table of more than one page.
Init ==
  /\ InitRun
  /\ InitHelpers
  /\ InitSchedule
  /\ \/ /\ scriptProperties \in {AllSet, [AllSet EXCEPT !["TIMESHEET_ID_COLUMN_INDEX"] = "1"]}
        /\ remoteTimesheets \in SmallTables
        /\ sinkState = "ok"
        /\ leaveRuleTable = remoteLeaveRules
        /\ sheet \in InitSheets
     \/ /\ scriptProperties = AllSet
        /\ remoteTimesheets \in BigTables
        /\ sinkState = "ok"
        /\ leaveRuleTable = remoteLeaveRules
        /\ sheet \in {<<>>, <<sheetHeaders>>}
     \/ /\ scriptProperties \in InitProperties
        /\ remoteTimesheets = TableOf(SmallIds, "asc")
        /\ sinkState = "ok"
        /\ leaveRuleTable = remoteLeaveRules
        /\ sheet = <<>>
     \/ /\ scriptProperties = AllSet
        /\ remoteTimesheets \in {TableOf({}, "asc"), TableOf(SmallIds, "asc")}
        /\ sinkState \in {"noTab", "noAccess"}
        /\ leaveRuleTable = remoteLeaveRules
        /\ sheet \in {<<>>, <<sheetHeaders>> \o ExistingRows({FirstId})}
     \/ /\ scriptProperties = AllSet
        /\ remoteTimesheets = TableOf(SmallIds, "asc")
        /\ sinkState = "ok"
        /\ leaveRuleTable = BigLeaveRules
        /\ sheet \in {<<>>, <<sheetHeaders>> \o ExistingRows({FirstId})}

\* ---------------------------------------------------------------- actions
Ended(p) == pc[p] \in {"idle", "done", "threw"}

IdsOf(records) == {records[i].Id : i \in 1..Len(records)}

\* What a finished run leaves for the next one to compare with.
Summary(p) ==
  IF pc[p] = "idle" THEN NoRun
  ELSE [valid |-> TRUE, ids |-> IdsOf(allApiTimesheets[p]),
        completed |-> exitAt[p] = "appended"]

\* Lines 13-36: read the properties; a missing required property ends the
\* run, with an email when the admin address is set.
StartRun(p) ==
  /\ Ended(p)
  /\ runCount[p] < MaxRuns
  /\ runCount' = [runCount EXCEPT ![p] = @ + 1]
  /\ prevRun' = [prevRun EXCEPT ![p] = Summary(p)]
  /\ sheetAtStart' = [sheetAtStart EXCEPT ![p] = sheet]
  /\ leaveRuleMap' = [leaveRuleMap EXCEPT ![p] = EmptyMap]
  /\ lrStartRecord' = [lrStartRecord EXCEPT ![p] = 0]
  /\ lrOutcome' = [lrOutcome EXCEPT ![p] = "none"]
  /\ allApiTimesheets' = [allApiTimesheets EXCEPT ![p] = <<>>]
  /\ currentStartRecord' = [currentStartRecord EXCEPT ![p] = 0]
  /\ keepFetching' = [keepFetching EXCEPT ![p] = TRUE]
  /\ tsOutcome' = [tsOutcome EXCEPT ![p] = "none"]
  /\ tsPages' = [tsPages EXCEPT ![p] = <<>>]
  /\ requests' = [requests EXCEPT ![p] = <<>>]
  /\ existingTimesheetIDsInSheet' = [existingTimesheetIDsInSheet EXCEPT ![p] = {}]
  /\ rowsToAppend' = [rowsToAppend EXCEPT ![p] = <<>>]
  /\ lastRowRead' = [lastRowRead EXCEPT ![p] = 0]
  /\ warnings' = [warnings EXCEPT ![p] = {}]
  /\ sinkWrites' = [sinkWrites EXCEPT ![p] = <<>>]
  /\ IF \E n \in RequiredProps : scriptProperties[n] = ""
       THEN /\ emails' = [emails EXCEPT ![p] =
                 IF ADMIN_EMAIL # ""
                   THEN <<Email("Deputy Sync Configuration Error", "config")>>
                   ELSE <<>>]
            /\ pc' = [pc EXCEPT ![p] = "done"]
            /\ exitAt' = [exitAt EXCEPT ![p] = "config"]
       ELSE /\ emails' = [emails EXCEPT ![p] = <<>>]
            /\ pc' = [pc EXCEPT ![p] = "leaveRules"]
            /\ exitAt' = [exitAt EXCEPT ![p] = "none"]
  /\ UNCHANGED <<envVars, sheet>>

Request(endpoint, start) ==
  [endpoint |-> endpoint, start |-> start, max |-> MAX_RECORDS_PER_CALL]

\* fetchAllLeaveRules, lines 512-516: the rules with an Id and a Name.
MapRules(map, jsonData) ==
  LET named == {i \in 1..Len(jsonData) : jsonData[i].Id # 0 /\ jsonData[i].Name # ""}
      ids == {jsonData[i].Id : i \in named}
  IN  [id \in (DOMAIN map) \cup ids |->
         IF id \in ids
           THEN jsonData[CHOOSE i \in named :
                           /\ jsonData[i].Id = id
                           /\ \A j \in named : jsonData[j].Id = id => j <= i].Name
           ELSE map[id]]

\* fetchAllLeaveRules, one request answered 200 with a list.
LeaveRulesPage(p) ==
  /\ pc[p] = "leaveRules"
  /\ LET req == Request("LeaveRule", lrStartRecord[p])
         jsonData == QueryLeaveRules(leaveRuleTable, req)
     IN  /\ requests' = [requests EXCEPT ![p] = Append(@, req)]
         /\ leaveRuleMap' = [leaveRuleMap EXCEPT ![p] = MapRules(@, jsonData)]
         /\ IF Len(jsonData) < MAX_RECORDS_PER_CALL
              THEN /\ pc' = [pc EXCEPT ![p] = "timesheets"]
                   /\ lrOutcome' = [lrOutcome EXCEPT ![p] = "complete"]
                   /\ UNCHANGED lrStartRecord
              ELSE /\ lrStartRecord' = [lrStartRecord EXCEPT ![p] = @ + Len(jsonData)]
                   /\ UNCHANGED <<pc, lrOutcome>>
  /\ UNCHANGED <<exitAt, envVars, sheet, allApiTimesheets, currentStartRecord,
                 keepFetching, tsOutcome, tsPages, sinkVars, emails, runVars>>

\* fetchAllLeaveRules, one request answered by a non-list, a status other
\* than 200 or an exception: logged, the loop ends, the map is returned.
LeaveRulesStop(p) ==
  /\ pc[p] = "leaveRules"
  /\ \E how \in {"notList", "status", "exception"} :
       lrOutcome' = [lrOutcome EXCEPT ![p] = how]
  /\ requests' = [requests EXCEPT ![p] = Append(@, Request("LeaveRule", lrStartRecord[p]))]
  /\ pc' = [pc EXCEPT ![p] = "timesheets"]
  /\ UNCHANGED <<exitAt, envVars, sheet, leaveRuleMap, lrStartRecord, allApiTimesheets,
                 currentStartRecord, keepFetching, tsOutcome, tsPages,
                 sinkVars, emails, runVars>>

\* Accumulate with the records of the earlier pages dropped.
Accumulate_Overwrite(all, jsonData) == jsonData

\* Line 89.
Accumulate(all, jsonData) == all \o jsonData

\* AdvanceStart with the offset left where it was.
AdvanceStart_Same(start, jsonData) == start

\* Line 94.
AdvanceStart(start, jsonData) == start + Len(jsonData)

\* IsLastPage that takes only an empty page for the last.
IsLastPage_Empty(jsonData) == Len(jsonData) = 0

\* Line 90.
IsLastPage(jsonData) == Len(jsonData) < MAX_RECORDS_PER_CALL

\* Lines 58-95: one request answered 200 with a list.
TimesheetPage(p) ==
  /\ pc[p] = "timesheets"
  /\ LET req == Request("Timesheet", currentStartRecord[p])
         jsonData == QueryTimesheets(remoteTimesheets, req)
     IN  /\ requests' = [requests EXCEPT ![p] = Append(@, req)]
         /\ tsPages' = [tsPages EXCEPT ![p] = Append(@, Len(jsonData))]
         /\ allApiTimesheets' = [allApiTimesheets EXCEPT ![p] = Accumulate(@, jsonData)]
         /\ IF IsLastPage(jsonData)
              THEN /\ keepFetching' = [keepFetching EXCEPT ![p] = FALSE]
                   /\ tsOutcome' = [tsOutcome EXCEPT ![p] = "complete"]
                   /\ pc' = [pc EXCEPT ![p] = "fetched"]
                   /\ UNCHANGED currentStartRecord
              ELSE /\ currentStartRecord' =
                        [currentStartRecord EXCEPT ![p] = AdvanceStart(@, jsonData)]
                   /\ UNCHANGED <<keepFetching, tsOutcome, pc>>
  /\ UNCHANGED <<exitAt, envVars, sheet, leaveRuleMap, lrStartRecord, lrOutcome,
                 sinkVars, emails, runVars>>

\* Lines 96-98: a 200 response that is not a list.
TimesheetNotList(p) ==
  /\ pc[p] = "timesheets"
  /\ requests' = [requests EXCEPT ![p] = Append(@, Request("Timesheet", currentStartRecord[p]))]
  /\ keepFetching' = [keepFetching EXCEPT ![p] = FALSE]
  /\ tsOutcome' = [tsOutcome EXCEPT ![p] = "notList"]
  /\ pc' = [pc EXCEPT ![p] = "fetched"]
  /\ UNCHANGED <<exitAt, envVars, sheet, leaveRuleMap, lrStartRecord, lrOutcome,
                 allApiTimesheets, currentStartRecord, tsPages, sinkVars,
                 emails, runVars>>

\* The email of lines 102 and 107.
FetchFailureEmail(how, code) ==
  IF how = "status"
    THEN Email("Deputy Sync API Error (Timesheets)", ToStr(code))
    ELSE Email("Deputy Sync Script Error (Timesheets)", "exception")

\* KeepFetchingAfterFailure with the flag left set.
KeepFetchingAfterFailure_LeftSet == TRUE

\* keepFetching after a failed request (lines 103 and 108).
KeepFetchingAfterFailure == FALSE

\* Lines 100-109: a status other than 200, or an exception of the request.
TimesheetFailure(p) ==
  /\ pc[p] = "timesheets"
  /\ \E how \in {"status", "exception"}, code \in ErrorCodes :
       /\ tsOutcome' = [tsOutcome EXCEPT ![p] = how]
       /\ emails' = [emails EXCEPT ![p] = Append(@, FetchFailureEmail(how, code))]
  /\ requests' = [requests EXCEPT ![p] = Append(@, Request("Timesheet", currentStartRecord[p]))]
  /\ keepFetching' = [keepFetching EXCEPT ![p] = KeepFetchingAfterFailure]
  /\ pc' = [pc EXCEPT ![p] = "fetched"]
  /\ UNCHANGED <<exitAt, envVars, sheet, leaveRuleMap, lrStartRecord, lrOutcome,
                 allApiTimesheets, currentStartRecord, tsPages, sinkVars,
                 runVars>>

\* NothingToSync that never holds: an empty fetch goes on to the sheet.
NothingToSync_Never(all, keep) == FALSE

\* Line 114.
NothingToSync(all, keep) == Len(all) = 0 /\ ~keep

\* Lines 113-117.
AfterFetch(p) ==
  /\ pc[p] = "fetched"
  /\ IF NothingToSync(allApiTimesheets[p], keepFetching[p])
       THEN /\ pc' = [pc EXCEPT ![p] = "done"]
            /\ exitAt' = [exitAt EXCEPT ![p] = "nothing"]
       ELSE /\ pc' = [pc EXCEPT ![p] = "openSheet"]
            /\ UNCHANGED exitAt
  /\ UNCHANGED <<envVars, sheet, fetchVars, sinkVars, emails, runVars>>

\* OpenSheet without the test of line 123: a missing tab goes unnoticed.
OpenSheet_NoTabTest(p) ==
  /\ pc[p] = "openSheet"
  /\ IF sinkState = "noAccess"
       THEN /\ pc' = [pc EXCEPT ![p] = "threw"]
            /\ exitAt' = [exitAt EXCEPT ![p] = "threw"]
       ELSE /\ pc' = [pc EXCEPT ![p] = "readIds"]
            /\ UNCHANGED exitAt
  /\ UNCHANGED <<envVars, sheet, fetchVars, sinkVars, emails, runVars>>

\* Lines 121-128: openById throws when the spreadsheet cannot be opened;
\* a missing tab is reported and ends the run.
OpenSheet(p) ==
  /\ pc[p] = "openSheet"
  /\ CASE sinkState = "noAccess" ->
            /\ pc' = [pc EXCEPT ![p] = "threw"]
            /\ exitAt' = [exitAt EXCEPT ![p] = "threw"]
            /\ UNCHANGED emails
       [] sinkState = "noTab" ->
            /\ pc' = [pc EXCEPT ![p] = "done"]
            /\ exitAt' = [exitAt EXCEPT ![p] = "noTab"]
            /\ emails' = [emails EXCEPT ![p] =
                 Append(@, Email("Deputy Sync Error - Sheet Not Found", "tab"))]
       [] OTHER ->
            /\ pc' = [pc EXCEPT ![p] = "readIds"]
            /\ UNCHANGED <<emails, exitAt>>
  /\ UNCHANGED <<envVars, sheet, fetchVars, sinkVars, runVars>>

\* Line 130.
ReadExistingIDs(p) ==
  /\ pc[p] = "readIds"
  /\ existingTimesheetIDsInSheet' = [existingTimesheetIDsInSheet EXCEPT ![p] =
       getExistingDeputyIDsFromSheet(sheet, TIMESHEET_ID_COLUMN_INDEX)]
  /\ pc' = [pc EXCEPT ![p] = "header"]
  /\ UNCHANGED <<exitAt, envVars, sheet, fetchVars, rowsToAppend, lastRowRead,
                 warnings, sinkWrites, emails, runVars>>

\* SheetIsEmpty with the test dropped, and with a test that also takes a
\* sheet of one row for empty.
SheetIsEmpty_Always(sh) == TRUE
SheetIsEmpty_OneRow(sh) == getLastRow(sh) <= 1

\* checkAndWriteHeaderRow, line 632.
SheetIsEmpty(sh) == getLastRow(sh) = 0

Write(kind, row, count) == [kind |-> kind, row |-> row, count |-> count]

\* Line 141, checkAndWriteHeaderRow: the test of the last row, and for a
\* sheet with rows the warnings.
CheckHeader(p) ==
  /\ pc[p] = "header"
  /\ IF SheetIsEmpty(sheet)
       THEN /\ pc' = [pc EXCEPT ![p] = "appendHeader"]
            /\ UNCHANGED warnings
       ELSE /\ pc' = [pc EXCEPT ![p] = "rows"]
            /\ warnings' = [warnings EXCEPT ![p] = HeaderWarnings(sheet, sheetHeaders)]
  /\ UNCHANGED <<exitAt, envVars, sheet, fetchVars, existingTimesheetIDsInSheet,
                 rowsToAppend, lastRowRead, sinkWrites, emails, runVars>>

\* checkAndWriteHeaderRow, line 633: sheet.appendRow(expectedHeaders).
AppendHeader(p) ==
  /\ pc[p] = "appendHeader"
  /\ sheet' = appendRow(sheet, sheetHeaders)
  /\ sinkWrites' = [sinkWrites EXCEPT ![p] = Append(@, Write("header", Len(sheet) + 1, 1))]
  /\ pc' = [pc EXCEPT ![p] = "rows"]
  /\ UNCHANGED <<exitAt, envVars, fetchVars, existingTimesheetIDsInSheet, rowsToAppend,
                 lastRowRead, warnings, emails, runVars>>

\* IsDuplicate with no record ever skipped.
IsDuplicate_NeverSkips(ts, existing) == FALSE

\* Line 145.
IsDuplicate(ts, existing) == deputyTimesheetIdString(ts) \in existing

\* Lines 143-179: the rows of the records whose id is not in the sheet.
NewRows(all, existing, map) ==
  LET fresh == SelectSeq(all, LAMBDA ts : ~IsDuplicate(ts, existing))
  IN  [i \in 1..Len(fresh) |-> rowData(fresh[i], map)]

\* The records the loop of line 143 gets through: all of them, or those
\* before the first record without an Id (absent is 0), on which
\* ts.Id.toString() of line 144 throws.
HasNoId(ts) == ts.Id = 0
BeforeThrow(all) ==
  IF \E i \in 1..Len(all) : HasNoId(all[i])
    THEN SubSeq(all, 1, (CHOOSE i \in 1..Len(all) :
                          HasNoId(all[i]) /\ \A j \in 1..(i - 1) : ~HasNoId(all[j])) - 1)
    ELSE all

\* Lines 143-181: the row loop and the test of the number of rows.
ComputeRows(p) ==
  /\ pc[p] = "rows"
  /\ rowsToAppend' = [rowsToAppend EXCEPT ![p] =
       NewRows(BeforeThrow(allApiTimesheets[p]), existingTimesheetIDsInSheet[p],
               leaveRuleMap[p])]
  /\ IF BeforeThrow(allApiTimesheets[p]) # allApiTimesheets[p]
       THEN /\ pc' = [pc EXCEPT ![p] = "threw"]
            /\ exitAt' = [exitAt EXCEPT ![p] = "threw"]
       ELSE IF Len(rowsToAppend'[p]) > 0
       THEN /\ pc' = [pc EXCEPT ![p] = "getLastRow"]
            /\ UNCHANGED exitAt
       ELSE /\ pc' = [pc EXCEPT ![p] = "done"]
            /\ exitAt' = [exitAt EXCEPT ![p] = "noNewRows"]
  /\ UNCHANGED <<envVars, sheet, fetchVars, existingTimesheetIDsInSheet,
                 lastRowRead, warnings, sinkWrites, emails, runVars>>

\* Line 183: sheet.getLastRow().
ReadLastRow(p) ==
  /\ pc[p] = "getLastRow"
  /\ lastRowRead' = [lastRowRead EXCEPT ![p] = getLastRow(sheet)]
  /\ pc' = [pc EXCEPT ![p] = "setValues"]
  /\ UNCHANGED <<exitAt, envVars, sheet, fetchVars, existingTimesheetIDsInSheet,
                 rowsToAppend, warnings, sinkWrites, emails, runVars>>

\* TargetRow off by one: the range starts on the last row.
TargetRow_LastRow(lastRow) == lastRow

\* Line 183: the first row of the range written.
TargetRow(lastRow) == lastRow + 1

\* Lines 183-185: getRange(...).setValues(rowsToAppend) succeeds.
BulkAppend(p) ==
  /\ pc[p] = "setValues"
  /\ sheet' = setValues(sheet, TargetRow(lastRowRead[p]), rowsToAppend[p])
  /\ sinkWrites' = [sinkWrites EXCEPT ![p] =
       Append(@, Write("rows", TargetRow(lastRowRead[p]), Len(rowsToAppend[p])))]
  /\ pc' = [pc EXCEPT ![p] = "done"]
  /\ exitAt' = [exitAt EXCEPT ![p] = "appended"]
  /\ UNCHANGED <<envVars, fetchVars, existingTimesheetIDsInSheet, rowsToAppend,
                 lastRowRead, warnings, emails, runVars>>

\* BulkAppendFails without the catch of line 186: the exception leaves
\* mainDataFetchAndProcess.
BulkAppendFails_Uncaught(p) ==
  /\ pc[p] = "setValues"
  /\ pc' = [pc EXCEPT ![p] = "threw"]
  /\ exitAt' = [exitAt EXCEPT ![p] = "appendFailed"]
  /\ UNCHANGED <<envVars, sheet, fetchVars, sinkVars, emails, runVars>>

\* Lines 186-190: the write throws; the error is mailed and the run ends.
BulkAppendFails(p) ==
  /\ pc[p] = "setValues"
  /\ emails' = [emails EXCEPT ![p] =
       Append(@, Email("Deputy Sync Error - Sheet Write Failure", "exception"))]
  /\ pc' = [pc EXCEPT ![p] = "done"]
  /\ exitAt' = [exitAt EXCEPT ![p] = "appendFailed"]
  /\ UNCHANGED <<envVars, sheet, fetchVars, sinkVars, runVars>>

\* The steps of a run; they leave the helper calls and the triggers alone.
Aside == UNCHANGED <<helperVars, scheduleVars>>

Step(p) ==
  \/ StartRun(p) /\ Aside
  \/ LeaveRulesPage(p) /\ Aside
  \/ LeaveRulesStop(p) /\ Aside
  \/ TimesheetPage(p) /\ Aside
  \/ TimesheetNotList(p) /\ Aside
  \/ TimesheetFailure(p) /\ Aside
  \/ AfterFetch(p) /\ Aside
  \/ OpenSheet(p) /\ Aside
  \/ ReadExistingIDs(p) /\ Aside
  \/ CheckHeader(p) /\ Aside
  \/ AppendHeader(p) /\ Aside
  \/ ComputeRows(p) /\ Aside
  \/ ReadLastRow(p) /\ Aside
  \/ BulkAppend(p) /\ Aside
  \/ BulkAppendFails(p) /\ Aside

\* Runs do not overlap: process 1 runs mainDataFetchAndProcess again and again.
Next == Step(1)

Spec == Init /\ [][Next]_vars

\* ------------------------------------------------------------ calendar
\* A Date is [year, month (0 = January), date], as getFullYear, getMonth
\* and getDate read it.
IsLeapYear(y) == (y % 4 = 0 /\ y % 100 # 0) \/ y % 400 = 0
DaysInMonth(y, m) ==
  CASE m = 1 -> IF IsLeapYear(y) THEN 29 ELSE 28
    [] m \in {3, 5, 8, 10} -> 30
    [] OTHER -> 31

\* Date.prototype.setDate(n) for n below the length of the month: a date
\* below 1 rolls back into the months, and the years, before.
RECURSIVE setDate(_, _)
setDate(d, n) ==
  IF n >= 1 THEN [d EXCEPT !.date = n]
  ELSE LET prev == IF d.month = 0
                     THEN [year |-> d.year - 1, month |-> 11, date |-> 1]
                     ELSE [year |-> d.year, month |-> d.month - 1, date |-> 1]
       IN  setDate(prev, n + DaysInMonth(prev.year, prev.month))

\* The days from 2024-01-01, a Monday, to a Date, and back.
RECURSIVE DaysBeforeYear(_)
DaysBeforeYear(y) ==
  IF y <= 2024 THEN 0
  ELSE DaysBeforeYear(y - 1) + (IF IsLeapYear(y - 1) THEN 366 ELSE 365)
RECURSIVE DaysBeforeMonth(_, _)
DaysBeforeMonth(y, m) ==
  IF m = 0 THEN 0 ELSE DaysBeforeMonth(y, m - 1) + DaysInMonth(y, m - 1)
DayNumber(d) == DaysBeforeYear(d.year) + DaysBeforeMonth(d.year, d.month) + d.date - 1
RECURSIVE DateOfDay(_, _)
DateOfDay(d, n) ==
  IF n < DaysInMonth(d.year, d.month) THEN [d EXCEPT !.date = n + 1]
  ELSE DateOfDay(IF d.month = 11
                   THEN [year |-> d.year + 1, month |-> 0, date |-> 1]
                   ELSE [year |-> d.year, month |-> d.month + 1, date |-> 1],
                 n - DaysInMonth(d.year, d.month))
DateOn(n) == DateOfDay([year |-> 2024, month |-> 0, date |-> 1], n)

\* Date.prototype.getDay(): 0 is Sunday.
getDay(d) == (DayNumber(d) + 1) % 7

\* isoFormat of getPreviousPayPeriodDates: YYYY-MM-DD.
isoFormat(d) == ToStr(d.year) \o "-" \o Pad2(d.month + 1) \o "-" \o Pad2(d.date)

\* getPreviousPayPeriodDates as declared first (lines 338-363): the end is
\* the run date less its day of the week.
getPreviousPayPeriodDates_338(scriptRunDate) ==
  LET dayOfWeek == getDay(scriptRunDate)
      payPeriodEndDate == setDate(scriptRunDate, scriptRunDate.date - dayOfWeek)
      payPeriodStartDate == setDate(payPeriodEndDate, payPeriodEndDate.date - 13)
  IN  [startDate |-> isoFormat(payPeriodStartDate), endDate |-> isoFormat(payPeriodEndDate)]

\* getPreviousPayPeriodDates with a window of 15 days.
getPreviousPayPeriodDates_Long(scriptRunDate) ==
  LET payPeriodEndDate == setDate(scriptRunDate, scriptRunDate.date - 3)
      payPeriodStartDate == setDate(payPeriodEndDate, payPeriodEndDate.date - 14)
  IN  [startDate |-> isoFormat(payPeriodStartDate), endDate |-> isoFormat(payPeriodEndDate)]

\* getPreviousPayPeriodDates as declared last (lines 566-600), the
\* declaration in effect: the end is three days before the run date.
getPreviousPayPeriodDates(scriptRunDate) ==
  LET payPeriodEndDate == setDate(scriptRunDate, scriptRunDate.date - 3)
      payPeriodStartDate == setDate(payPeriodEndDate, payPeriodEndDate.date - 13)
  IN  [startDate |-> isoFormat(payPeriodStartDate), endDate |-> isoFormat(payPeriodEndDate)]

\* ------------------------------------------------------------ schedule
\* Lines 203-210: the first scheduled run, 4 June 2025.
firstScheduledRunDateUTC == [year |-> 2025, month |-> 5, date |-> 4]

\* Lines 213-219: the whole days from the first scheduled run to the UTC
\* date of now.  Both are UTC midnights, so the difference in milliseconds
\* is a whole number of days and Math.floor changes nothing.
diffInDays(now) ==
  DayNumber([year |-> now.year, month |-> now.month, date |-> now.date])
    - DayNumber(firstScheduledRunDateUTC)

\* IsActiveRunDate with a period of one week.
IsActiveRunDate_Weekly(diff) == diff >= 0 /\ diff % 7 = 0

\* Line 227.
IsActiveRunDate(diff) == diff >= 0 /\ diff % 14 = 0

BiWeeklyHandler == "mainDataFetchAndProcess_biWeeklyCheck"

\* Lines 263-268: a weekly trigger, Wednesdays at 4 AM New York time; the
\* UTC date of that hour is the same Wednesday.
NewTrigger(handler) ==
  [handlerFunction |-> handler, weekDay |-> 3, hour |-> 4,
   timezone |-> "America/New_York"]

\* KeepsTrigger with no trigger deleted.
KeepsTrigger_All(t) == TRUE

\* Line 256: the triggers setupTrigger leaves alone.
KeepsTrigger(t) == t.handlerFunction # BiWeeklyHandler

\* setupTrigger, lines 251-270.
setupTrigger ==
  /\ setupCalls < MaxSetups
  /\ setupCalls' = setupCalls + 1
  /\ projectTriggers' =
       Append(SelectSeq(projectTriggers, KeepsTrigger), NewTrigger(BiWeeklyHandler))
  /\ UNCHANGED <<mainVars, helperVars, today, firings>>

\* mainDataFetchAndProcess_biWeeklyCheck, lines 196-249, as the trigger
\* fires it on the Wednesday `today`: on an active date it calls
\* mainDataFetchAndProcess, which starts with the configuration check.
mainDataFetchAndProcess_biWeeklyCheck ==
  /\ \E i \in 1..Len(projectTriggers) :
       /\ projectTriggers[i].handlerFunction = BiWeeklyHandler
       /\ getDay(DateOn(today)) = projectTriggers[i].weekDay
  /\ pc[1] \in {"idle", "done"}
  /\ Len(firings) < MaxFirings
  /\ LET active == IsActiveRunDate(diffInDays(DateOn(today)))
     IN  /\ firings' = Append(firings, [date |-> today, invoked |-> active])
         /\ IF active THEN StartRun(1) ELSE UNCHANGED mainVars
  /\ today' = today + 7
  /\ UNCHANGED <<helperVars, projectTriggers, setupCalls>>

\* CriticalError with the exception logged only.
CriticalError_Silent ==
  /\ pc[1] = "threw"
  /\ pc' = [pc EXCEPT ![1] = "done"]
  /\ UNCHANGED <<envVars, sheet, fetchVars, sinkVars, runVars, exitAt, emails,
                 helperVars, scheduleVars>>

\* Lines 234-240: an exception out of mainDataFetchAndProcess is caught,
\* logged and mailed when the admin address is set.
CriticalError ==
  /\ pc[1] = "threw"
  /\ pc' = [pc EXCEPT ![1] = "done"]
  /\ emails' = [emails EXCEPT ![1] =
       IF ADMIN_EMAIL # ""
         THEN Append(@, Email("Deputy Sync CRITICAL ERROR", "exception"))
         ELSE @]
  /\ UNCHANGED <<envVars, sheet, fetchVars, sinkVars, runVars, exitAt,
                 helperVars, scheduleVars>>

\* The steps of a run the handler started, the remote answering every call.
RunStep ==
  \/ LeaveRulesPage(1) /\ Aside
  \/ TimesheetPage(1) /\ Aside
  \/ AfterFetch(1) /\ Aside
  \/ OpenSheet(1) /\ Aside
  \/ ReadExistingIDs(1) /\ Aside
  \/ CheckHeader(1) /\ Aside
  \/ AppendHeader(1) /\ Aside
  \/ ComputeRows(1) /\ Aside
  \/ ReadLastRow(1) /\ Aside
  \/ BulkAppend(1) /\ Aside

OtherTrigger == NewTrigger("sendWeeklyReport")

\* An approved shift that came without an Id.
NoIdRecord == [Timesheet(FirstId + 2) EXCEPT !.Id = 0]
RECURSIVE SeqsUpTo(_, _)
SeqsUpTo(S, n) ==
  IF n = 0 THEN {<<>>}
  ELSE LET shorter == SeqsUpTo(S, n - 1)
       IN  shorter \cup {Append(q, x) : q \in shorter, x \in S}

\* Triggers already in the project, the Wednesday of the first firing, a
\* spreadsheet that opens or not, a tab that is empty or holds its header.
InitTriggered ==
  /\ InitRun
  /\ InitHelpers
  /\ scriptProperties = AllSet
  /\ remoteTimesheets \in {TableOf(InitIds, "asc"), TableOf(InitIds, "asc") \o <<NoIdRecord>>}
  /\ leaveRuleTable = remoteLeaveRules
  /\ sinkState \in {"ok", "noAccess"}
  /\ sheet \in {<<>>, <<sheetHeaders>>}
  /\ projectTriggers \in SeqsUpTo({NewTrigger(BiWeeklyHandler), OtherTrigger}, MaxTriggers)
  /\ today \in {DayNumber(firstScheduledRunDateUTC) + 7 * k : k \in (-MaxWeeksOff)..MaxWeeksOff}
  /\ firings = <<>>
  /\ setupCalls = 0

NextTriggered ==
  \/ setupTrigger
  \/ mainDataFetchAndProcess_biWeeklyCheck
  \/ CriticalError
  \/ RunStep

SpecTriggered == InitTriggered /\ [][NextTriggered]_vars

\* ------------------------------------------------- helpers on their own
\* Calls of lookupLeaveRuleName: a rule id, 0 for none, and a map as
\* fetchAllLeaveRules builds it from a LeaveRule table; the rule of the
\* highest id has no name and is never mapped.
RuleTable(S) ==
  LET ids == Ascending(S)
  IN  [i \in 1..Len(ids) |->
         [Id |-> ids[i],
          Name |-> IF ids[i] > MaxRuleId THEN "" ELSE "Rule " \o ToStr(ids[i])]]
LookupMaps == {MapRules(EmptyMap, RuleTable(S)) : S \in SUBSET (1..(MaxRuleId + 1))}
LookupCalls ==
  {[fn |-> "lookupLeaveRuleName", leaveRuleId |-> id, leaveRuleMap |-> m] :
     id \in 0..(MaxRuleId + 2), m \in LookupMaps}

\* Calls of getPreviousPayPeriodDates: the run date, and which of the two
\* declarations of the file answers.
PayPeriodCalls ==
  {[fn |-> "getPreviousPayPeriodDates", scriptRunDate |-> DateOn(n), declaration |-> l] :
     n \in FirstRunDay..MaxRunDay, l \in {338, 566}}

\* Calls of the Mealbreak cell of line 169: the Slots of a record, an
\* absent list read as the empty one.  A slot is a meal break, a rest break
\* or work, and lasts 45 seconds, 15 minutes or 1 h 1 min 1 s.
SlotKinds ==
  {<<"B", "Meal Break">>, <<"B", "Rest Break">>, <<"W", "Work">>}
SlotChoices ==
  {[strType |-> k[1], strTypeName |-> k[2], intUnixStart |-> 1000,
    intUnixEnd |-> 1000 + d] : k \in SlotKinds, d \in {45, 900, 3661}}
    \cup {[strType |-> "W", strTypeName |-> "Work", intUnixStart |-> 0,
           intUnixEnd |-> 1000]}
RECURSIVE SlotLists(_)
SlotLists(n) ==
  IF n = 0 THEN {<<>>}
  ELSE LET shorter == SlotLists(n - 1)
       IN  shorter \cup {Append(q, x) : q \in shorter, x \in SlotChoices}
MealbreakCalls == {[fn |-> "Mealbreak", Slots |-> q] : q \in SlotLists(MaxSlots)}

\* Calls of the row literal of lines 161-177: a record with each optional
\* part there or not (employee, date and times, totals, comments and unit,
\* a meal-break slot), leave or not, with a rule in the map, a rule not in
\* it or none, and the map full or empty.
MealSlot ==
  [strType |-> "B", strTypeName |-> "Meal Break", intUnixStart |-> 1000,
   intUnixEnd |-> 1900]
RowRecord(isLeave, rule, employee, times, totals, texts, slots) ==
  [Id |-> FirstId, TimeApprover |-> 5, IsLeave |-> isLeave, LeaveRule |-> rule,
   EmployeeObject |-> IF employee THEN [Id |-> 7, DisplayName |-> "Ann"] ELSE NoEmployee,
   Date |-> IF times THEN DateChars ELSE <<>>,
   StartTimeLocalized |-> IF times THEN StartChars ELSE <<>>,
   EndTimeLocalized |-> IF times THEN EndChars ELSE <<>>,
   Slots |-> slots,
   TotalTime |-> IF totals THEN 8 ELSE 0,
   Cost |-> IF totals THEN 120 ELSE 0,
   EmployeeComment |-> IF texts THEN "late" ELSE "",
   SupervisorComment |-> IF texts THEN "ok" ELSE "",
   OperationalUnitInfo |->
     IF texts THEN [OperationalUnitName |-> "Bar", CompanyName |-> "Main"] ELSE NoUnit]
RowRecords ==
  {RowRecord(l, r, e, t, n, x, sl) :
     l \in BOOLEAN, r \in {0, 1, 3}, e \in BOOLEAN, t \in BOOLEAN, n \in BOOLEAN,
     x \in BOOLEAN, sl \in {<<>>, <<MealSlot>>}}
RowCalls ==
  {[fn |-> "rowData", ts |-> ts, leaveRuleMap |-> m] :
     ts \in RowRecords, m \in {EmptyMap, FullLeaveRuleMap}}

Returned(v) == [done |-> TRUE, value |-> v]

\* Lines 144-177 for one record.
CallRowData ==
  /\ helperCall.fn = "rowData"
  /\ ~helperResult.done
  /\ helperResult' = Returned(rowData(helperCall.ts, helperCall.leaveRuleMap))
  /\ UNCHANGED <<mainVars, helperCall, scheduleVars>>

\* Line 169.
CallMealbreak ==
  /\ helperCall.fn = "Mealbreak"
  /\ ~helperResult.done
  /\ helperResult' =
       Returned(formatDurationFromSeconds(
                  calculateMealbreakDurationInSeconds(helperCall.Slots)))
  /\ UNCHANGED <<mainVars, helperCall, scheduleVars>>

CallGetPreviousPayPeriodDates ==
  /\ helperCall.fn = "getPreviousPayPeriodDates"
  /\ ~helperResult.done
  /\ helperResult' =
       Returned(IF helperCall.declaration = 338
                  THEN getPreviousPayPeriodDates_338(helperCall.scriptRunDate)
                  ELSE getPreviousPayPeriodDates(helperCall.scriptRunDate))
  /\ UNCHANGED <<mainVars, helperCall, scheduleVars>>

CallLookupLeaveRuleName ==
  /\ helperCall.fn = "lookupLeaveRuleName"
  /\ ~helperResult.done
  /\ helperResult' =
       Returned(lookupLeaveRuleName(helperCall.leaveRuleId, helperCall.leaveRuleMap))
  /\ UNCHANGED <<mainVars, helperCall, scheduleVars>>

InitHelperCalls ==
  /\ InitRun
  /\ InitSchedule
  /\ scriptProperties = AllSet
  /\ remoteTimesheets = TableOf({}, "asc")
  /\ leaveRuleTable = remoteLeaveRules
  /\ sinkState = "ok"
  /\ sheet = <<>>
  /\ helperCall \in LookupCalls \cup PayPeriodCalls \cup MealbreakCalls \cup RowCalls
  /\ helperResult = NotReturned

NextHelperCalls ==
  \/ CallLookupLeaveRuleName
  \/ CallGetPreviousPayPeriodDates
  \/ CallMealbreak
  \/ CallRowData

SpecHelpers == InitHelperCalls /\ [][NextHelperCalls]_vars

\* Two runs that overlap (a manual run during a triggered one), with the
\* remote and the spreadsheet answering every call.
InitOverlap ==
  /\ InitRun
  /\ InitHelpers
  /\ InitSchedule
  /\ scriptProperties = AllSet
  /\ remoteTimesheets \in {TableOf(S, "asc") : S \in SUBSET InitIds}
  /\ sinkState = "ok"
  /\ leaveRuleTable = remoteLeaveRules
  /\ sheet \in {<<>>, <<sheetHeaders>>, <<sheetHeaders>> \o ExistingRows({FirstId})}

NextOverlap ==
  \E p \in Procs :
    \/ StartRun(p) /\ Aside
    \/ LeaveRulesPage(p) /\ Aside
    \/ TimesheetPage(p) /\ Aside
    \/ AfterFetch(p) /\ Aside
    \/ OpenSheet(p) /\ Aside
    \/ ReadExistingIDs(p) /\ Aside
    \/ CheckHeader(p) /\ Aside
    \/ AppendHeader(p) /\ Aside
    \/ ComputeRows(p) /\ Aside
    \/ ReadLastRow(p) /\ Aside
    \/ BulkAppend(p) /\ Aside

SpecOverlap == InitOverlap /\ [][NextOverlap]_vars

\* ----------------------------------------------------------------- claims
\* The non-blank cells of the key column in rows 2 .. last row of a sheet.
KeyColumn(sh, idx) ==
  {sh[r][idx + 1] : r \in {q \in 2..Len(sh) : Len(sh[q]) > idx /\ sh[q][idx + 1] # ""}}

RowsComputed(p) ==
  \/ pc[p] \in {"getLastRow", "setValues"}
  \/ pc[p] = "done" /\ exitAt[p] \in {"noNewRows", "appended", "appendFailed"}

RECURSIVE SumSeq(_)
SumSeq(ns) == IF ns = <<>> THEN 0 ELSE Head(ns) + SumSeq(Tail(ns))

TimesheetRequests(p) == SelectSeq(requests[p], LAMBDA r : r.endpoint = "Timesheet")

MatchingRecords == SelectSeq(remoteTimesheets, MatchesSearch)

FetchFailed(p) == tsOutcome[p] \in {"status", "exception"}

\* C1: once a run has computed its rows, the rows to append are, in order,
\* exactly the rows of the fetched records whose id, as a string, is not in
\* the key column (rows 2 .. last row) of the sheet the run read: a record
\* is left out iff its id string is among those keys.
C1_SkippedIffKeyInSheet ==
  RowsComputed(1) =>
    LET keys == KeyColumn(sheetAtStart[1], TIMESHEET_ID_COLUMN_INDEX)
        fresh == SelectSeq(allApiTimesheets[1], LAMBDA ts : ToStr(ts.Id) \notin keys)
    IN  /\ existingTimesheetIDsInSheet[1] = keys
        /\ Len(rowsToAppend[1]) = Len(fresh)
        /\ \A j \in 1..Len(fresh) : rowsToAppend[1][j][1] = ToStr(fresh[j].Id)

\* C1 witness: keys {"10", "11"} in the sheet, ids 10, 11, 12 fetched, and
\* the single row of id 12 appended.
C1_Witness ==
  /\ exitAt[1] = "appended"
  /\ KeyColumn(sheetAtStart[1], TIMESHEET_ID_COLUMN_INDEX) = {"10", "11"}
  /\ [i \in 1..Len(allApiTimesheets[1]) |-> allApiTimesheets[1][i].Id] = <<10, 11, 12>>
  /\ Len(rowsToAppend[1]) = 1
  /\ rowsToAppend[1][1][1] = "12"
  /\ sheet = sheetAtStart[1] \o rowsToAppend[1]

\* C2: a run that follows a run whose append succeeded, and fetches the same
\* set of records, appends no row and leaves the sheet as it found it.
C2_SecondRunAppendsNothing ==
  (/\ pc[1] = "done"
   /\ prevRun[1].completed
   /\ exitAt[1] \in {"noNewRows", "appended", "appendFailed"}
   /\ IdsOf(allApiTimesheets[1]) = prevRun[1].ids)
  => (rowsToAppend[1] = <<>> /\ sheet = sheetAtStart[1])

\* C3: every step of a run keeps every row of the sheet at its index with
\* its contents; a write only adds rows after the last row.
C3_AppendOnly ==
  [][/\ Len(sheet') >= Len(sheet)
     /\ \A i \in 1..Len(sheet) : sheet'[i] = sheet[i]]_vars

\* C3 witness: a run that found rows in the sheet has appended its block
\* after them.
C3_Witness ==
  /\ exitAt[1] = "appended"
  /\ Len(sheetAtStart[1]) >= 2
  /\ Len(sheet) = Len(sheetAtStart[1]) + Len(rowsToAppend[1])
  /\ SubSeq(sheet, 1, Len(sheetAtStart[1])) = sheetAtStart[1]
  /\ sinkWrites[1] = <<Write("rows", Len(sheetAtStart[1]) + 1, Len(rowsToAppend[1]))>>

\* C4 as stated: the sheet is written once, as the last step of the run, so
\* a run still in progress has written nothing.
C4_SingleWriteAtEnd ==
  /\ Len(sinkWrites[1]) <= 1
  /\ (sinkWrites[1] # <<>> => pc[1] = "done")

\* C4 as amended: a step that changes the sheet is either the header write,
\* on an empty sheet and before the rows are computed, or the bulk write of
\* the computed rows, which comes after the fetches and the read of the keys
\* and ends the run.
C4_HeaderThenSingleBulkWrite ==
  [][sheet' # sheet =>
       \/ /\ pc[1] = "appendHeader" /\ pc'[1] = "rows"
          /\ sheet = <<>> /\ sheet' = <<sheetHeaders>>
          /\ sinkWrites[1] = <<>>
          /\ rowsToAppend[1] = <<>>
       \/ /\ pc[1] = "setValues" /\ pc'[1] = "done"
          /\ tsOutcome[1] # "none" /\ lrOutcome[1] # "none"
          /\ rowsToAppend[1] # <<>>
          /\ \A i \in 1..Len(sinkWrites[1]) : sinkWrites[1][i].kind = "header"
          /\ sheet' = sheet \o rowsToAppend[1]]_vars

\* C4 witness: a run that wrote twice, the header and then the rows.
C4_Witness ==
  /\ pc[1] = "done"
  /\ Len(sinkWrites[1]) = 2
  /\ sinkWrites[1][1].kind = "header"
  /\ sinkWrites[1][2].kind = "rows"
  /\ sheet = <<sheetHeaders>> \o rowsToAppend[1]

\* The block of the last bulk write of a run, as the sheet holds it now.
BlockInSheet(p) ==
  LET w == sinkWrites[p][Len(sinkWrites[p])]
  IN  IF w.row + w.count - 1 <= Len(sheet)
        THEN SubSeq(sheet, w.row, w.row + w.count - 1)
        ELSE <<>>

\* C5 as stated: when runs overlap, the block a run has written stays in
\* the sheet as written.
C5_BlocksNeverOverwritten ==
  \A p \in Procs : exitAt[p] = "appended" => BlockInSheet(p) = rowsToAppend[p]

\* C5 as amended: a bulk write made while the last row is still the one the
\* run read lands intact right after the last row and changes no other row.
C5_IntactWhenLastRowUnchanged ==
  [][\A p \in Procs :
       (/\ pc[p] = "setValues" /\ pc'[p] = "done"
        /\ lastRowRead[p] = getLastRow(sheet))
       => sheet' = sheet \o rowsToAppend[p]]_vars

\* C5 witness: two runs that started from the same sheet have both written,
\* the second after reading the last row the first left, and both blocks
\* are in the sheet.
C5_Witness ==
  /\ exitAt[1] = "appended" /\ exitAt[2] = "appended"
  /\ runCount[1] = 1 /\ runCount[2] = 1
  /\ sheetAtStart[1] = sheetAtStart[2]
  /\ sinkWrites[2][Len(sinkWrites[2])].row =
       sinkWrites[1][Len(sinkWrites[1])].row + Len(rowsToAppend[1])
  /\ BlockInSheet(1) = rowsToAppend[1]
  /\ BlockInSheet(2) = rowsToAppend[2]

HeaderStepDone(p) ==
  \/ pc[p] \in {"rows", "getLastRow", "setValues"}
  \/ pc[p] = "done" /\ exitAt[p] \in {"noNewRows", "appended", "appendFailed"}

HeaderWritten(p) == \E i \in 1..Len(sinkWrites[p]) : sinkWrites[p][i].kind = "header"

\* C6: after checkAndWriteHeaderRow, the header has been written iff the
\* sheet had no row; on a sheet with rows, row 1 is what it was.
C6_HeaderOnlyOnEmptySheet ==
  HeaderStepDone(1) =>
    /\ HeaderWritten(1) <=> sheetAtStart[1] = <<>>
    /\ sheet # <<>>
    /\ sheet[1] = IF sheetAtStart[1] = <<>> THEN sheetHeaders ELSE sheetAtStart[1][1]

\* C6 witness: a sheet whose row 1 is a foreign, shorter header keeps it,
\* with both warnings logged.
C6_Witness ==
  /\ HeaderStepDone(1)
  /\ sheetAtStart[1] # <<>>
  /\ sheet[1] = ShortHeader
  /\ warnings[1] = {"shorter", "mismatch"}
  /\ ~HeaderWritten(1)

\* A record either kind of approval selects: approved by a manager, or a
\* leave approved by the system.
ApprovedEitherWay(ts) == ts.TimeApprover > 0 \/ (ts.IsLeave /\ ts.TimeApprover = -1)

\* C7: the records of a completed fetch are those of the remote approved
\* either way, one per id, in ascending order of id.
C7_UnionOnePerIdAscending ==
  (pc[1] = "fetched" /\ tsOutcome[1] = "complete") =>
    /\ IdsOf(allApiTimesheets[1]) = IdsOf(SelectSeq(remoteTimesheets, ApprovedEitherWay))
    /\ \A i, j \in 1..Len(allApiTimesheets[1]) :
         i < j => allApiTimesheets[1][i].Id < allApiTimesheets[1][j].Id

\* C8: while every request succeeds, the records accumulated are the
\* matching records of the remote in order, up to the sum of the page
\* sizes; request k starts at the sum of the sizes of the pages before it,
\* with max 500; a completed fetch holds every matching record, and pages
\* of 500, 500 and 137 give 1137 records for starts 0, 500 and 1000.
C8_PaginationComplete ==
  tsOutcome[1] \in {"none", "complete"} =>
    LET reqs == TimesheetRequests(1)
        all == allApiTimesheets[1]
    IN  /\ Len(all) = SumSeq(tsPages[1])
        /\ all = SubSeq(MatchingRecords, 1, Len(all))
        /\ Len(reqs) = Len(tsPages[1])
        /\ \A k \in 1..Len(reqs) :
             /\ reqs[k].start = SumSeq(SubSeq(tsPages[1], 1, k - 1))
             /\ reqs[k].max = 500
        /\ tsOutcome[1] = "complete" => all = MatchingRecords
        /\ tsPages[1] = <<500, 500, 137>> =>
             /\ Len(all) = 1137
             /\ [k \in 1..Len(reqs) |-> reqs[k].start] = <<0, 500, 1000>>

\* C8 witness: a fetch of three pages of 500, 500 and 137 records.
C8_Witness ==
  /\ tsOutcome[1] = "complete"
  /\ tsPages[1] = <<500, 500, 137>>
  /\ Len(allApiTimesheets[1]) = 1137
  /\ Len(TimesheetRequests(1)) = 3

\* What the code after the loop consults to tell an error stop from the
\* last page (line 114): keepFetching, false when the last page was reached.
FlaggedAsFailed(p) == keepFetching[p]

\* C9: after a failure on page k >= 2 the records of the pages before it
\* are the ones kept, and the fetch is flagged as failed to the code after
\* the loop.
C9_PartialFetchFlagged ==
  (pc[1] = "fetched" /\ FetchFailed(1) /\ Len(tsPages[1]) >= 1) =>
    /\ allApiTimesheets[1] = SubSeq(MatchingRecords, 1, SumSeq(tsPages[1]))
    /\ FlaggedAsFailed(1)

\* C10 as stated: a fetch that failed contributes no record: no row is
\* computed from it and the sheet gets none.
C10_FailedFetchContributesNothing ==
  FetchFailed(1) => (rowsToAppend[1] = <<>> /\ sheet = sheetAtStart[1])

\* C10 as amended: a failed request is the last one of the loop, is mailed
\* to the admin with the status (or as an exception) and does not make the
\* run throw; the records kept are those of the pages received before it.
\* With no such page the run ends at once, nothing computed or written;
\* otherwise the records kept are processed like any fetched records.
C10_FailedFetchKeepsEarlierPages ==
  FetchFailed(1) =>
    /\ Len(TimesheetRequests(1)) = Len(tsPages[1]) + 1
    /\ \E i \in 1..Len(emails[1]) :
         /\ emails[1][i].to = ADMIN_EMAIL
         /\ emails[1][i] \in
              {FetchFailureEmail(tsOutcome[1], code) : code \in ErrorCodes}
    /\ pc[1] = "threw" => sinkState = "noAccess"
    /\ allApiTimesheets[1] = SubSeq(MatchingRecords, 1, SumSeq(tsPages[1]))
    /\ tsPages[1] = <<>> =>
         /\ pc[1] = "fetched" \/ (pc[1] = "done" /\ exitAt[1] = "nothing")
         /\ rowsToAppend[1] = <<>>
         /\ sheet = sheetAtStart[1]
    /\ (tsPages[1] # <<>> /\ exitAt[1] = "appended") =>
         /\ sheet = (IF sheetAtStart[1] = <<>> THEN <<sheetHeaders>> ELSE sheetAtStart[1])
                      \o rowsToAppend[1]
         /\ Len(rowsToAppend[1]) =
              Len(SelectSeq(allApiTimesheets[1], LAMBDA ts :
                    ToStr(ts.Id) \notin KeyColumn(sheetAtStart[1], TIMESHEET_ID_COLUMN_INDEX)))

\* C10 witness: the second request fails with status 500 and the 500
\* records of the first page are appended.
C10_Witness ==
  /\ tsOutcome[1] = "status"
  /\ tsPages[1] = <<500>>
  /\ exitAt[1] = "appended"
  /\ Len(rowsToAppend[1]) = 500
  /\ Len(sheet) = 501

\* ------------------------------------------------------------- C11 .. C20
LeaveRuleRequests(p) == SelectSeq(requests[p], LAMBDA r : r.endpoint = "LeaveRule")

NoRepeat(reqs) ==
  \A i, j \in 1..Len(reqs) :
    i < j => <<reqs[i].endpoint, reqs[i].start>> # <<reqs[j].endpoint, reqs[j].start>>

SameRun(p) == runCount'[p] = runCount[p]

Failures == {"notList", "status", "exception"}

\* C11: no request of a run repeats an (endpoint, start) pair; once a fetch
\* loop has met a non-list response, a status other than 200 or an
\* exception, the run issues no further request of that loop; after a
\* failed bulk write the run is over and writes nothing more.
C11_NoRetry ==
  [][/\ NoRepeat(requests'[1])
     /\ (SameRun(1) /\ lrOutcome[1] \in Failures) =>
          LeaveRuleRequests(1)' = LeaveRuleRequests(1)
     /\ (SameRun(1) /\ tsOutcome[1] \in Failures) =>
          TimesheetRequests(1)' = TimesheetRequests(1)
     /\ (SameRun(1) /\ exitAt[1] = "appendFailed") =>
          (sheet' = sheet /\ sinkWrites' = sinkWrites /\ pc'[1] = "done")]_vars

\* C11 witness: the second LeaveRule request failed after a full page, the
\* timesheet fetch went on from there, and the bulk write failed.
C11_Witness ==
  /\ lrOutcome[1] = "status"
  /\ [i \in 1..Len(requests[1]) |-> <<requests[1][i].endpoint, requests[1][i].start>>]
       = <<<<"LeaveRule", 0>>, <<"LeaveRule", 500>>, <<"Timesheet", 0>>>>
  /\ exitAt[1] = "appendFailed"
  /\ sheet = sheetAtStart[1]
  /\ sinkWrites[1] = <<>>

\* The options the run cannot do without, and the admin address as set.
ClaimedRequired ==
  {"DEPUTY_INSTALL", "DEPUTY_GEO", "DEPUTY_ACCESS_TOKEN", "SPREADSHEET_ID",
   "SHEET_NAME", "ADMIN_EMAIL_FOR_NOTIFICATIONS"}
OptionMissing == \E n \in ClaimedRequired : scriptProperties[n] = ""
AdminAddress == scriptProperties["ADMIN_EMAIL_FOR_NOTIFICATIONS"]

\* The run ended at the configuration check with nothing requested, read
\* or written.
EndedAtConfigCheck(p) ==
  /\ pc[p] = "done" /\ exitAt[p] = "config"
  /\ requests[p] = <<>>
  /\ existingTimesheetIDsInSheet[p] = {}
  /\ sinkWrites[p] = <<>>
  /\ sheet = sheetAtStart[p]

\* C12 as stated: with a required option missing the run ends at the
\* configuration check, before any request and any access to the sheet, and
\* the admin gets the configuration-error email.
C12_ConfigErrorNotifiesAdmin ==
  (runCount[1] >= 1 /\ OptionMissing) =>
    /\ EndedAtConfigCheck(1)
    /\ Len(emails[1]) = 1
    /\ emails[1][1].subject = "Deputy Sync Configuration Error"

\* C12 as amended: a run ends at the configuration check iff a required
\* option is missing; it then has requested, read and written nothing, and
\* the configuration-error email goes to the admin address when that
\* address is set; when the address is the missing option no email is sent.
C12_ConfigErrorNotifiesWhenAddressSet ==
  runCount[1] >= 1 =>
    /\ exitAt[1] = "config" <=> OptionMissing
    /\ OptionMissing =>
         /\ EndedAtConfigCheck(1)
         /\ emails[1] =
              IF AdminAddress # ""
                THEN <<[to |-> AdminAddress,
                        subject |-> "Deputy Sync Configuration Error",
                        detail |-> "config"]>>
                ELSE <<>>

\* C12 witness: the tab name is not set and the admin has been mailed.
C12_Witness ==
  /\ runCount[1] >= 1
  /\ scriptProperties["SHEET_NAME"] = ""
  /\ EndedAtConfigCheck(1)
  /\ Len(emails[1]) = 1
  /\ emails[1][1].to = AdminAddress

\* The run looked the tab up: it got past the configuration check and the
\* fetch with records to process, and the sheet call has returned.
TabLookedUp(p) == pc[p] = "done" /\ exitAt[p] \notin {"config", "nothing"}

\* C13: with the tab missing, a run reads no key and writes neither header
\* nor row; once it has looked the tab up it has ended there, the last
\* email being the sheet-not-found email to the admin.
C13_MissingTabEndsBeforeWrite ==
  (sinkState = "noTab" /\ runCount[1] >= 1) =>
    /\ existingTimesheetIDsInSheet[1] = {}
    /\ sinkWrites[1] = <<>>
    /\ rowsToAppend[1] = <<>>
    /\ sheet = sheetAtStart[1]
    /\ pc[1] \notin {"readIds", "header", "appendHeader", "rows", "getLastRow", "setValues"}
    /\ TabLookedUp(1) =>
         /\ exitAt[1] = "noTab"
         /\ emails[1] # <<>>
         /\ emails[1][Len(emails[1])] =
              [to |-> AdminAddress, subject |-> "Deputy Sync Error - Sheet Not Found",
               detail |-> "tab"]

\* C13 witness: records were fetched, the tab was missing, the run ended
\* with the email and the spreadsheet as it was.
C13_Witness ==
  /\ sinkState = "noTab"
  /\ exitAt[1] = "noTab"
  /\ allApiTimesheets[1] # <<>>
  /\ Len(emails[1]) = 1
  /\ sheet = sheetAtStart[1]

WriteFailureEmails(p) ==
  SelectSeq(emails[p], LAMBDA e : e.subject = "Deputy Sync Error - Sheet Write Failure")

\* C14: a run whose bulk write failed has returned normally, has mailed the
\* failure with its details to the admin once, as its last email, and has
\* written none of its rows: the sheet holds what the run found, plus the
\* header if the run wrote it.
C14_FailedAppendReportedNotRecovered ==
  exitAt[1] = "appendFailed" =>
    /\ pc[1] = "done"
    /\ rowsToAppend[1] # <<>>
    /\ WriteFailureEmails(1) =
         <<[to |-> AdminAddress, subject |-> "Deputy Sync Error - Sheet Write Failure",
            detail |-> "exception"]>>
    /\ emails[1][Len(emails[1])].subject = "Deputy Sync Error - Sheet Write Failure"
    /\ \A i \in 1..Len(sinkWrites[1]) : sinkWrites[1][i].kind = "header"
    /\ sheet = IF sheetAtStart[1] = <<>> THEN <<sheetHeaders>> ELSE sheetAtStart[1]

\* C14 witness: the bulk write of three rows failed on a sheet that holds
\* a header and one row.
C14_Witness ==
  /\ exitAt[1] = "appendFailed"
  /\ Len(rowsToAppend[1]) = 3
  /\ Len(sheetAtStart[1]) = 2
  /\ sheet = sheetAtStart[1]
  /\ Len(emails[1]) = 1

\* The emails of a run about a failure of the given kind.
EmailsAbout(p, subjects) == SelectSeq(emails[p], LAMBDA e : e.subject \in subjects)

\* C15: with the admin address configured, every failure of a run has its
\* email to that address: the configuration error, a status other than 200
\* or an exception in the timesheet fetch and in the leave-rule fetch, the
\* missing tab, and the failed append.
C15_EveryFailureEmailed ==
  (AdminAddress # "" /\ runCount[1] >= 1) =>
    /\ exitAt[1] = "config" =>
         EmailsAbout(1, {"Deputy Sync Configuration Error"}) # <<>>
    /\ tsOutcome[1] \in {"status", "exception"} =>
         EmailsAbout(1, {"Deputy Sync API Error (Timesheets)",
                         "Deputy Sync Script Error (Timesheets)"}) # <<>>
    /\ exitAt[1] = "noTab" =>
         EmailsAbout(1, {"Deputy Sync Error - Sheet Not Found"}) # <<>>
    /\ exitAt[1] = "appendFailed" =>
         EmailsAbout(1, {"Deputy Sync Error - Sheet Write Failure"}) # <<>>
    /\ lrOutcome[1] \in {"status", "exception"} => emails[1] # <<>>

LeaveRuleFetchFailed(p) == lrOutcome[p] \in {"status", "exception"}

\* The run went on to the timesheet fetch and never threw on the way.
WentOnToTimesheets(p) ==
  /\ pc[p] # "leaveRules"
  /\ pc[p] = "timesheets" \/ TimesheetRequests(p) # <<>>
  /\ pc[p] = "threw" => sinkState = "noAccess"

\* C16: after a failed leave-rule request the map is empty, with no entry
\* of the pages received before the failure, and the run goes on to the
\* timesheet fetch.
C16_FailedLeaveRuleFetchGivesEmptyMap ==
  LeaveRuleFetchFailed(1) =>
    (leaveRuleMap[1] = EmptyMap /\ WentOnToTimesheets(1))

\* C17: lookupLeaveRuleName returns the mapped name for an id that is a key
\* of the map, "Unknown Rule ID (<id>)" for an id that is no key of it (the
\* empty map included), and "" when there is no id.
C17_LookupNameOrPlaceholder ==
  (helperCall.fn = "lookupLeaveRuleName" /\ helperResult.done) =>
    LET id == helperCall.leaveRuleId
        map == helperCall.leaveRuleMap
    IN  /\ helperResult.value =
             IF id = 0 THEN ""
             ELSE IF id \in DOMAIN map THEN map[id]
             ELSE "Unknown Rule ID (" \o ToStr(id) \o ")"
        /\ (id = 6 /\ map = EmptyMap) => helperResult.value = "Unknown Rule ID (6)"
        /\ (id = 2 /\ 2 \in DOMAIN map) => helperResult.value = "Rule 2"

\* C17 witness: an id that is no key of a non-empty map got the placeholder.
C17_Witness ==
  /\ helperCall.fn = "lookupLeaveRuleName"
  /\ helperResult.done
  /\ helperCall.leaveRuleId = 3
  /\ DOMAIN helperCall.leaveRuleMap = {1, 2}
  /\ helperResult.value = "Unknown Rule ID (3)"

\* C18: whatever the run date, the end date returned is the latest Sunday
\* on or before the run date and the start date the Monday 13 days before
\* it, across the ends of months and years.
C18_WindowEndsOnLatestSunday ==
  (helperCall.fn = "getPreviousPayPeriodDates" /\ helperResult.done) =>
    LET run == DayNumber(helperCall.scriptRunDate)
        end == run - ((run + 1) % 7)
    IN  /\ helperResult.value.endDate = isoFormat(DateOn(end))
        /\ helperResult.value.startDate = isoFormat(DateOn(end - 13))

\* 4 June 2025 in days, and the firings on which the sync ran.
FirstActiveDay == DayNumber([year |-> 2025, month |-> 5, date |-> 4])
InvokedFirings == SelectSeq(firings, LAMBDA f : f.invoked)

\* C19: the weekly firings fall on Wednesdays a week apart, and the sync is
\* called on exactly those whose UTC date is 2025-06-04 plus a multiple of
\* 14 days: on no firing before that date, on that date, and from then on
\* on every other firing.
C19_RunsEveryOtherWednesday ==
  /\ \A i \in 1..Len(firings) :
       /\ getDay(DateOn(firings[i].date)) = 3
       /\ i > 1 => firings[i].date = firings[i - 1].date + 7
       /\ firings[i].invoked <=>
            \E k \in 0..(MaxWeeksOff + MaxFirings) : firings[i].date = FirstActiveDay + 14 * k
       /\ firings[i].date < FirstActiveDay => ~firings[i].invoked
       /\ DateOn(firings[i].date) = [year |-> 2025, month |-> 5, date |-> 4] =>
            firings[i].invoked
       /\ (i > 1 /\ firings[i].date > FirstActiveDay) =>
            (firings[i].invoked <=> ~firings[i - 1].invoked)
  /\ runCount[1] = Len(InvokedFirings)

\* C19 witness: firings on 28 May, 4, 11 and 18 June 2025; the sync ran on
\* 4 and 18 June only.
C19_Witness ==
  /\ Len(firings) = 4
  /\ [i \in 1..4 |-> isoFormat(DateOn(firings[i].date))] =
       <<"2025-05-28", "2025-06-04", "2025-06-11", "2025-06-18">>
  /\ [i \in 1..4 |-> firings[i].invoked] = <<FALSE, TRUE, FALSE, TRUE>>
  /\ runCount[1] = 2

HandlersOf(triggers) == [i \in 1..Len(triggers) |-> triggers[i].handlerFunction]
OtherTriggers(triggers) ==
  SelectSeq(triggers, LAMBDA t : t.handlerFunction # "mainDataFetchAndProcess_biWeeklyCheck")

DurationText(t) ==
  ToStr(t \div 3600) \o ":" \o Pad2((t \div 60) % 60) \o ":" \o Pad2(t % 60)

Lengths(slots) == [i \in 1..Len(slots) |-> slots[i].intUnixEnd - slots[i].intUnixStart]

\* C21 as stated: the Mealbreak cell is H:MM:SS of the summed lengths of
\* the slots of type "B", the others ignored; the slots of the example give
\* "0:15:00" and no slot gives "0:00:00".
C21_MealbreakSumsTypeB ==
  (helperCall.fn = "Mealbreak" /\ helperResult.done) =>
    helperResult.value =
      DurationText(SumSeq(Lengths(SelectSeq(helperCall.Slots,
                                            LAMBDA slot : slot.strType = "B"))))

\* C21 as amended: the slots summed are those of type "B" that are named
\* "Meal Break"; a type "B" slot of another name is ignored like the rest.
C21_MealbreakSumsMealBreakSlots ==
  (helperCall.fn = "Mealbreak" /\ helperResult.done) =>
    /\ helperResult.value =
         DurationText(SumSeq(Lengths(SelectSeq(helperCall.Slots,
            LAMBDA slot : slot.strType = "B" /\ slot.strTypeName = "Meal Break"))))
    /\ helperCall.Slots = <<>> => helperResult.value = "0:00:00"
    /\ helperCall.Slots =
         <<[strType |-> "B", strTypeName |-> "Meal Break", intUnixStart |-> 1000,
            intUnixEnd |-> 1900],
           [strType |-> "W", strTypeName |-> "Work", intUnixStart |-> 0,
            intUnixEnd |-> 1000]>>
         => helperResult.value = "0:15:00"

\* C21 witness: a meal break of 1 h 1 min 1 s next to a rest break.
C21_Witness ==
  /\ helperCall.fn = "Mealbreak"
  /\ helperResult.done
  /\ Len(helperCall.Slots) = 2
  /\ helperCall.Slots[1].strTypeName = "Meal Break"
  /\ helperCall.Slots[2].strTypeName = "Rest Break"
  /\ helperResult.value = "1:01:01"

RowBuilt == helperCall.fn = "rowData" /\ helperResult.done

\* C22 as stated: the Mealbreak cell of the row of a leave record is
\* "0:00:00" whatever its slots.
C22_LeaveRowMealbreakZero ==
  (RowBuilt /\ helperCall.ts.IsLeave) => helperResult.value[7] = "0:00:00"

\* C22 as amended: the Mealbreak cell is computed from the slots in the
\* same way for a leave record as for a shift; it is "0:00:00" for a leave
\* record that carries no meal-break slot.
C22_LeaveRowMealbreakFromSlots ==
  RowBuilt =>
    /\ helperResult.value[7] =
         DurationText(SumSeq(Lengths(SelectSeq(helperCall.ts.Slots,
            LAMBDA slot : slot.strType = "B" /\ slot.strTypeName = "Meal Break"))))
    /\ helperCall.ts.Slots = <<>> => helperResult.value[7] = "0:00:00"
    /\ helperCall.ts.Slots # <<>> => helperResult.value[7] = "0:15:00"

\* C22 witness: a leave record with a meal break of 15 minutes.
C22_Witness ==
  /\ RowBuilt
  /\ helperCall.ts.IsLeave
  /\ helperCall.ts.Slots # <<>>
  /\ helperResult.value[7] = "0:15:00"

\* The cell of an optional text field: the field, or "" when it is missing.
Missing(ts) ==
  [employee |-> ts.EmployeeObject = NoEmployee,
   times |-> ts.Date = <<>>,
   totals |-> ts.TotalTime = 0 /\ ts.Cost = 0,
   texts |-> ts.EmployeeComment = "" /\ ts.OperationalUnitInfo = NoUnit]

\* The 14 cells in schema order, each taken from its own field.
InSchemaOrder(ts, row) ==
  /\ Len(row) = 14
  /\ Len(row) = Len(sheetHeaders)
  /\ row[1] = ToStr(ts.Id)
  /\ ~Missing(ts).employee => row[2] = "7" /\ row[3] = "Ann"
  /\ ~Missing(ts).times =>
       row[4] = "06/02/2025" /\ row[5] = "09:00:00" /\ row[6] = "17:30:00"
  /\ row[7] \in {"0:00:00", "0:15:00"}
  /\ ~Missing(ts).totals => row[8] = "8" /\ row[9] = "120"
  /\ ~Missing(ts).texts =>
       row[10] = "late" /\ row[11] = "Bar" /\ row[12] = "Main" /\ row[14] = "ok"
  /\ row[13] \in {"", "Sick", "Leave (Rule ID Missing)"}
                   \cup {"Unknown Rule ID (" \o ToStr(r) \o ")" : r \in 1..MaxRuleId}

C29_LeaveCellByRule ==
  RowBuilt =>
    LET ts == helperCall.ts
        map == helperCall.leaveRuleMap
        cell == helperResult.value[13]
    IN  /\ cell = "" <=> ~ts.IsLeave
        /\ (ts.IsLeave /\ ts.LeaveRule \in DOMAIN map) => cell = map[ts.LeaveRule]
        /\ (ts.IsLeave /\ ts.LeaveRule # 0 /\ ts.LeaveRule \notin DOMAIN map) =>
             cell = "Unknown Rule ID (" \o ToStr(ts.LeaveRule) \o ")"
        /\ (ts.IsLeave /\ ts.LeaveRule = 0) => cell = "Leave (Rule ID Missing)"

\* C29 witness: a leave record without a rule id, and its cell.
C29_Witness ==
  /\ RowBuilt
  /\ helperCall.ts.IsLeave
  /\ helperCall.ts.LeaveRule = 0
  /\ helperResult.value[13] = "Leave (Rule ID Missing)"

FetchEmailSubjects ==
  {"Deputy Sync API Error (Timesheets)", "Deputy Sync Script Error (Timesheets)"}

\* The pages of a loop that ran to its last page: full pages, then one
\* short page.
FullThenShort(pages) ==
  /\ pages # <<>>
  /\ \A k \in 1..(Len(pages) - 1) : pages[k] = MAX_RECORDS_PER_CALL
  /\ pages[Len(pages)] < MAX_RECORDS_PER_CALL

\* C24: each paged loop makes at most floor(N/500)+1 requests for a remote
\* of N matching records, and exactly that many when it ends on its last
\* page (one request for N = 0, an extra request with an empty page for a
\* multiple of 500); it ends with the first page of fewer than 500 records,
\* the first non-list response (no email, the records so far kept) or the
\* first error.
C24_PagedLoopsStop ==
  LET n == Len(MatchingRecords)
      rules == Len(leaveRuleTable)
      reqs == TimesheetRequests(1)
  IN  /\ Len(reqs) <= n \div MAX_RECORDS_PER_CALL + 1
      /\ Len(LeaveRuleRequests(1)) <= rules \div MAX_RECORDS_PER_CALL + 1
      /\ tsOutcome[1] = "complete" =>
           /\ Len(reqs) = n \div MAX_RECORDS_PER_CALL + 1
           /\ FullThenShort(tsPages[1])
           /\ n = 0 => tsPages[1] = <<0>>
           /\ n = MAX_RECORDS_PER_CALL => tsPages[1] = <<MAX_RECORDS_PER_CALL, 0>>
      /\ lrOutcome[1] = "complete" =>
           Len(LeaveRuleRequests(1)) = rules \div MAX_RECORDS_PER_CALL + 1
      /\ tsOutcome[1] = "none" =>
           (reqs = <<>> \/ pc[1] = "timesheets") /\ Len(reqs) = Len(tsPages[1])
      /\ tsOutcome[1] \in Failures =>
           /\ pc[1] # "timesheets"
           /\ Len(reqs) = Len(tsPages[1]) + 1
           /\ \A k \in 1..Len(tsPages[1]) : tsPages[1][k] = MAX_RECORDS_PER_CALL
           /\ Len(allApiTimesheets[1]) = SumSeq(tsPages[1])
      /\ tsOutcome[1] = "notList" => EmailsAbout(1, FetchEmailSubjects) = <<>>
      /\ lrOutcome[1] # "none" => pc[1] # "leaveRules"

\* C24 witness: 500 matching records fetched with two requests, the second
\* answered with an empty page.
C24_Witness ==
  /\ Len(MatchingRecords) = MAX_RECORDS_PER_CALL
  /\ tsOutcome[1] = "complete"
  /\ tsPages[1] = <<MAX_RECORDS_PER_CALL, 0>>
  /\ Len(TimesheetRequests(1)) = 2

\* The timesheet loop of the run is over.
FetchOver(p) == pc[p] \notin {"idle", "leaveRules", "timesheets"} /\ exitAt[p] # "config"

RecordIds(sh) == [r \in 1..(Len(sh) - 1) |-> Cell(sh[r + 1], 1)]

\* C26: with the key column A, whose ids were not repeated in the sheet
\* the runs started from, no two data rows of the sheet carry the same
\* record id after any number of runs, even when a run fetched a record
\* twice.
C26_NoTwoRowsShareId ==
  TIMESHEET_ID_COLUMN_INDEX = 0 =>
    LET ids == RecordIds(sheet)
    IN  \A i, j \in 1..Len(ids) : (i < j /\ ids[i] # "") => ids[i] # ids[j]

\* Line 48: the window of the run a firing started, from the date of the
\* firing.
PayPeriodOf(firing) == getPreviousPayPeriodDates(DateOn(firing.date))
Windows == [i \in 1..Len(InvokedFirings) |-> PayPeriodOf(InvokedFirings[i])]

\* The day whose YYYY-MM-DD form is the given text, among the 20 days up to
\* the given day.
IsoCalendar ==
  [n \in (FirstActiveDay - 20)..(FirstActiveDay + 7 * (MaxWeeksOff + MaxFirings)) |->
     isoFormat(DateOn(n))]
DayOfIso(text, upTo) == CHOOSE n \in (upTo - 20)..upTo : IsoCalendar[n] = text
StartDays ==
  [i \in 1..Len(InvokedFirings) |-> DayOfIso(Windows[i].startDate, InvokedFirings[i].date)]
EndDays ==
  [i \in 1..Len(InvokedFirings) |-> DayOfIso(Windows[i].endDate, InvokedFirings[i].date)]

\* C27: the runs the handler starts are 14 days apart, on 2025-06-04 plus a
\* multiple of 14 days; the window of each starts the day after the window
\* of the run before it ends, and every day from the start of the first
\* window to the end of the last lies in exactly one window.
C27_WindowsTileCalendar ==
  LET runs == Len(InvokedFirings)
      starts == StartDays
      ends == EndDays
  IN  /\ \A i \in 1..runs :
           /\ InvokedFirings[i].date >= FirstActiveDay
           /\ (InvokedFirings[i].date - FirstActiveDay) % 14 = 0
           /\ starts[i] <= ends[i]
           /\ i < runs =>
                /\ InvokedFirings[i + 1].date = InvokedFirings[i].date + 14
                /\ starts[i + 1] = ends[i] + 1
      /\ runs > 0 =>
           \A d \in starts[1]..ends[runs] :
             Cardinality({i \in 1..runs : starts[i] <= d /\ d <= ends[i]}) = 1

\* C27 witness: the runs of 4 and 18 June 2025 and their windows.
C27_Witness ==
  /\ Len(InvokedFirings) = 2
  /\ InvokedFirings[1].date = FirstActiveDay
  /\ Windows = <<[startDate |-> "2025-05-19", endDate |-> "2025-06-01"],
                 [startDate |-> "2025-06-02", endDate |-> "2025-06-15"]>>

CriticalEmails(p) == EmailsAbout(p, {"Deputy Sync CRITICAL ERROR"})

\* What an exception in a scheduled run leaves once the handler has caught
\* it: one email when the admin address is set, and no row written.
CaughtAndReported ==
  (pc[1] = "done" /\ exitAt[1] = "threw") =>
    /\ Len(CriticalEmails(1)) = IF ADMIN_EMAIL # "" THEN 1 ELSE 0
    /\ emails[1] = CriticalEmails(1)
    /\ \A i \in 1..Len(sinkWrites[1]) : sinkWrites[1][i].kind # "rows"
    /\ sheet \in {sheetAtStart[1], Append(sheetAtStart[1], sheetHeaders)}

\* C28: an exception thrown in mainDataFetchAndProcess during a scheduled
\* run (the spreadsheet cannot be opened, a record has no Id) is caught by
\* the handler: the next step of the run is the catch, no firing starts
\* before it, exactly one "CRITICAL ERROR" email is sent when the admin
\* address is set, and the rows computed before the exception are not
\* appended.
C28_ScheduledRunCatchesException ==
  [][/\ pc[1] = "threw" =>
          /\ pc'[1] \in {"threw", "done"}
          /\ firings' = firings
          /\ sheet' = sheet
          /\ pc'[1] = "done" =>
               emails'[1] = Append(emails[1], Email("Deputy Sync CRITICAL ERROR", "exception"))
     /\ pc'[1] = "threw" => CriticalEmails(1)' = <<>>
     /\ CaughtAndReported']_vars

\* C28 witness: a record without an Id stopped the row loop after two rows
\* were computed; the handler caught the exception and sent the one email,
\* and the sheet has the header alone.
C28_Witness ==
  /\ pc[1] = "done"
  /\ exitAt[1] = "threw"
  /\ sinkState = "ok"
  /\ Len(rowsToAppend[1]) = 2
  /\ Len(CriticalEmails(1)) = 1
  /\ sheet = <<sheetHeaders>>

====
